---- MODULE Spec2Model ----
(***************************************************************************)
(* A model of the request context (class Context) and of the mailbox       *)
(* operations of the users API (listThreads .. watchMailbox).              *)
(*                                                                         *)
(* JavaScript values are modelled as strings.  Two reserved strings stand  *)
(* for "the property is not present on the object" (Absent) and for the    *)
(* value undefined (Undefined).                                            *)
(***************************************************************************)
EXTENDS Integers, Sequences, FiniteSets, TLC

Undefined == "<undefined>"
Absent == "<absent>"

(***************************************************************************)
(* Bounds of the model.                                                    *)
(***************************************************************************)
\* calls made on the one context of SpecChain
MaxChainCalls == 3
\* calls made on the contexts of SpecShare
MaxShareCalls == 3

(***************************************************************************)
(* ContextKeys: the recognized keys, and one extension key.                *)
(***************************************************************************)
K_ThreadName == "x-textile-thread-name"
K_Thread == "x-textile-thread"
K_Session == "x-textile-session"
K_Org == "x-textile-org"
K_APIKey == "x-textile-api-key"
K_Authorization == "authorization"
K_APISig == "x-textile-api-sig"
K_APISigMsg == "x-textile-api-sig-msg"
K_Host == "host"
K_Transport == "transport"
K_Debug == "debug"
K_Extension == "x-extension"

RecognizedKeys ==
  { K_ThreadName, K_Thread, K_Session, K_Org, K_APIKey, K_Authorization,
    K_APISig, K_APISigMsg, K_Host, K_Transport, K_Debug }

ContextKeys == RecognizedKeys \cup { K_Extension }

defaultHost == "https://api.textile.io:3447"
WebsocketTransport == "grpc.WebsocketTransport()"

(***************************************************************************)
(* Inputs.                                                                 *)
(***************************************************************************)
\* string arguments of the mutators
Strings == { "a", "b" }
\* ThreadID objects; ThreadIDToString is ThreadID.toString()
ThreadIDs == { "ThreadID#1", "ThreadID#2" }
ThreadIDToString(id) == IF id = "ThreadID#1" THEN "bafk1" ELSE "bafk2"
\* arguments of withAPISig
APISigs == { "APISig#1", "APISig#2" }
SigOf(value) == IF value = "APISig#1" THEN "s1" ELSE "s2"
MsgOf(value) == IF value = "APISig#1" THEN "m1" ELSE "m2"
\* the keys and values set() is called with
SetKeys == { K_Extension, K_Host }
SetValues == { "a", Undefined }

\* The Context objects.  The key set a context's constructor creates is
\* named after the context; ctx[c] is the key set c._context refers to.
CtxIds == { "c1", "c2", "c3" }
NoObject == "<none>"

VARIABLES
  objs,     \* the heap of key sets: objs[o][k] is the value of key k, or Absent
  ctx,      \* ctx[c]: the key set this._context of context c refers to
  call,     \* the last call made: [op, recv, arg, arg2]
  ret,      \* what the last call returned
  nsteps,   \* number of calls made
  log       \* SpecChain: the calls made on c1, in order

ctxVars == << objs, ctx, call, ret, nsteps, log >>

EmptyKeys == [k \in ContextKeys |-> Absent]

\* The heap a method works on, and the heap and value it leaves.
Heap == [objs |-> objs, ctx |-> ctx]
Returns(h, r) == [objs |-> h.objs, ctx |-> h.ctx, ret |-> r]
\* this._context[k] = v
Write(h, c, k, v) == [h EXCEPT !.objs[h.ctx[c]][k] = v]

Alive(c) == ctx[c] # NoObject

\* constructor(host, transport, debug): _context = {} and the three defaults
Construct(h, c, host, transport, debug) ==
  [objs |-> [h.objs EXCEPT ![c] =
               [EmptyKeys EXCEPT ![K_Host] = host,
                                 ![K_Transport] = transport,
                                 ![K_Debug] = debug]],
   ctx |-> [h.ctx EXCEPT ![c] = c]]

\* set(key, value)
set(h, c, key, value) == Returns(Write(h, c, key, value), c)

\* get(key): a key that is not present reads as undefined
get(h, c, key) ==
  LET v == h.objs[h.ctx[c]][key] IN IF v = Absent THEN Undefined ELSE v

withSession(h, c, value) ==
  IF value = Undefined THEN Returns(h, c)
  ELSE Returns(Write(h, c, K_Session, value), c)

withThread(h, c, value) ==
  IF value = Undefined THEN Returns(h, c)
  ELSE Returns(Write(h, c, K_Thread, ThreadIDToString(value)), c)

withThreadName(h, c, value) ==
  IF value = Undefined THEN Returns(h, c)
  ELSE Returns(Write(h, c, K_ThreadName, value), c)

withOrg(h, c, value) ==
  IF value = Undefined THEN Returns(h, c)
  ELSE Returns(Write(h, c, K_Org, value), c)

\* withToken, storing the token without the "bearer " prefix
withToken_NoPrefix(h, c, value) ==
  IF value = Undefined THEN Returns(h, c)
  ELSE Returns(Write(h, c, K_Authorization, value), c)

withToken(h, c, value) ==
  IF value = Undefined THEN Returns(h, c)
  ELSE Returns(Write(h, c, K_Authorization, "bearer " \o value), c)

\* the defined branch ends in a bare "return": the call returns undefined
withAPIKey(h, c, value) ==
  IF value = Undefined THEN Returns(h, c)
  ELSE Returns(Write(h, c, K_APIKey, value), Undefined)

withAPISig(h, c, value) ==
  IF value = Undefined THEN Returns(h, c)
  ELSE Returns(Write(Write(h, c, K_APISigMsg, MsgOf(value)), c, K_APISig, SigOf(value)), c)

\* withContext, copying the keys of value into the receiver's own key set
withContext_Copies(h, c, value) ==
  IF value = Undefined THEN Returns(h, c)
  ELSE Returns([h EXCEPT !.objs[h.ctx[c]] = h.objs[h.ctx[value]]], c)

\* this._context = value._context: the reference, not a copy
withContext(h, c, value) ==
  IF value = Undefined THEN Returns(h, c)
  ELSE Returns([h EXCEPT !.ctx[c] = h.ctx[value]], c)

\* toJSON() returns the key set itself
toJSON(h, c) == h.ctx[c]

\* fromJSON, returning the constructed context without giving it json
fromJSON_KeepsConstructed(h, n, json) ==
  Returns(Construct(h, n, defaultHost, WebsocketTransport, "false"), n)

\* static fromJSON(json): new Context(), then _context = json.  n is the
\* context the call creates.
fromJSON(h, n, json) ==
  LET made == Construct(h, n, defaultHost, WebsocketTransport, "false")
  IN Returns([made EXCEPT !.ctx[n] = json], n)

(***************************************************************************)
(* Actions of the context: one per method.                                 *)
(***************************************************************************)
\* call records the method, its receiver and its (at most two) arguments
Did(r, op, c, arg, arg2) ==
  /\ objs' = r.objs
  /\ ctx' = r.ctx
  /\ ret' = r.ret
  /\ call' = [op |-> op, recv |-> c, arg |-> arg, arg2 |-> arg2]
  /\ nsteps' = nsteps + 1

NewContext ==
  \E c \in CtxIds :
    /\ ~Alive(c)
    /\ Did(Returns(Construct(Heap, c, defaultHost, WebsocketTransport, "false"), c),
           "new", c, Undefined, Undefined)

Set ==
  \E c \in CtxIds, k \in SetKeys, v \in SetValues :
    /\ Alive(c)
    /\ Did(set(Heap, c, k, v), "set", c, k, v)

WithSession ==
  \E c \in CtxIds, v \in Strings \cup { Undefined } :
    /\ Alive(c)
    /\ Did(withSession(Heap, c, v), "withSession", c, v, Undefined)

WithThread ==
  \E c \in CtxIds, v \in ThreadIDs \cup { Undefined } :
    /\ Alive(c)
    /\ Did(withThread(Heap, c, v), "withThread", c, v, Undefined)

WithThreadName ==
  \E c \in CtxIds, v \in Strings \cup { Undefined } :
    /\ Alive(c)
    /\ Did(withThreadName(Heap, c, v), "withThreadName", c, v, Undefined)

WithOrg ==
  \E c \in CtxIds, v \in Strings \cup { Undefined } :
    /\ Alive(c)
    /\ Did(withOrg(Heap, c, v), "withOrg", c, v, Undefined)

WithToken ==
  \E c \in CtxIds, v \in Strings \cup { Undefined } :
    /\ Alive(c)
    /\ Did(withToken(Heap, c, v), "withToken", c, v, Undefined)

WithAPIKey ==
  \E c \in CtxIds, v \in Strings \cup { Undefined } :
    /\ Alive(c)
    /\ Did(withAPIKey(Heap, c, v), "withAPIKey", c, v, Undefined)

WithAPISig ==
  \E c \in CtxIds, v \in APISigs \cup { Undefined } :
    /\ Alive(c)
    /\ Did(withAPISig(Heap, c, v), "withAPISig", c, v, Undefined)

WithContext ==
  \E c \in CtxIds, v \in CtxIds \cup { Undefined } :
    /\ Alive(c)
    /\ v # Undefined => Alive(v)
    /\ Did(withContext(Heap, c, v), "withContext", c, v, Undefined)

\* Context.fromJSON(c.toJSON())
FromJSON ==
  \E c \in CtxIds, n \in CtxIds :
    /\ Alive(c)
    /\ ~Alive(n)
    /\ Did(fromJSON(Heap, n, toJSON(Heap, c)), "fromJSON", n, c, Undefined)

InitCtxVars(alive) ==
  LET none == [objs |-> [c \in CtxIds |-> EmptyKeys],
               ctx |-> [c \in CtxIds |-> NoObject]]
      RECURSIVE Build(_, _)
      Build(h, cs) ==
        IF cs = {} THEN h
        ELSE LET c == CHOOSE x \in cs : TRUE
             IN Build(Construct(h, c, defaultHost, WebsocketTransport, "false"),
                      cs \ { c })
      h0 == Build(none, alive)
  IN /\ objs = h0.objs
     /\ ctx = h0.ctx
     /\ call = [op |-> "new", recv |-> "c1", arg |-> Undefined, arg2 |-> Undefined]
     /\ ret = "c1"
     /\ nsteps = 0
     /\ log = << >>

(***************************************************************************)
(* The unary mailbox operations.  An operation is an async function: it    *)
(* builds its request, calls api.unary and awaits it; when the transport   *)
(* rejects, the await throws and the operation rejects with that error;    *)
(* when the transport resolves, the operation maps the reply.              *)
(*                                                                         *)
(* An optional value is a sequence: << >> when absent, << v >> when        *)
(* present.                                                                *)
(***************************************************************************)
None == << >>
Some(v) == << v >>

MailConfig ==
  [ThreadName |-> "hubmail",
   InboxCollectionName |-> "inbox",
   SentboxCollectionName |-> "sentbox"]

Status == [ALL |-> 0, READ |-> 1, UNREAD |-> 2]

\* opts of the two list operations: absent, or an object whose fields are
\* each absent or present
Seeks == { "", "cursor" }
Limits == { 0, 5 }
Ascendings == BOOLEAN
Statuses == { Status.ALL, Status.READ, Status.UNREAD }
Optional(S) == { None } \cup { Some(v) : v \in S }
SentboxListOptions ==
  [seek : Optional(Seeks), limit : Optional(Limits),
   ascending : Optional(Ascendings)]
InboxListOptions ==
  [seek : Optional(Seeks), limit : Optional(Limits),
   ascending : Optional(Ascendings), status : Optional(Statuses)]

\* JavaScript truthiness of an optional field: present, and not "", 0 or false
TruthyString(f) == f # None /\ f[1] # ""
TruthyNumber(f) == f # None /\ f[1] # 0
TruthyBoolean(f) == f # None /\ f[1]

\* the identifiers a reply carries (base64 of the identifier's bytes), and
\* ThreadID.fromBytes(Buffer.from(id, 'base64')), which throws on bytes that
\* are no identifier
WireIds == { "AVUS", "AVUT", "AAAA" }
FromBytesThrows(w) == w = "AAAA"
ThreadIDFromBytes(w) == IF w = "AVUS" THEN "ThreadID#1" ELSE "ThreadID#2"
DecodeError == "DecodeError"
TransportErrors == { "TransportError#1", "TransportError#2" }

\* sample payloads
SampleThreads(w) == [isdb |-> TRUE, name |-> MailConfig.ThreadName, id |-> w]
PbMessages ==
  { [Id |-> "m1", From |-> "A", To |-> "B", Body |-> << 104, 105 >>,
     Signature |-> << 115 >>, Createdat |-> 1000, Readat |-> 0] }
MessageIds == { "m1", "m2" }

\* the replies the transport may resolve a call of the method with
Replies(method) ==
  CASE method = "ListThreads" ->
         { [list |-> l] :
             l \in { << >> } \cup { << SampleThreads(w) >> : w \in WireIds } }
    [] method = "GetThread" -> { SampleThreads(w) : w \in WireIds }
    [] method = "SetupMailbox" -> { [mailboxid |-> w] : w \in WireIds }
    [] method = "SendMessage" -> { [id |-> "m1", createdat |-> 1000] }
    [] method \in { "ListInboxMessages", "ListSentboxMessages" } ->
         { [messages |-> l] : l \in { << >> } \cup { << m >> : m \in PbMessages } }
    [] method = "ReadInboxMessage" -> { [readat |-> 2000] }
    [] OTHER -> { [empty |-> TRUE] }

VARIABLES
  pc,          \* "idle", "awaiting" (the operation awaits api.unary), "settled"
  inv,         \* the operation invoked and its arguments
  unaryCalls,  \* the api.unary calls the invocation issued: [method, req]
  answer,      \* what the transport answered: [ok, err, reply]
  outcome,     \* the operation's promise: [kind, err, value]
  settles      \* times the operation's promise was settled

unaryVars == << pc, inv, unaryCalls, answer, outcome, settles >>

Pending == [kind |-> "pending", err |-> Undefined, value |-> None]
Rejected(e) == [kind |-> "rejected", err |-> e, value |-> None]
Resolved(v) == [kind |-> "resolved", err |-> Undefined, value |-> Some(v)]

\* ---- the request each operation builds, as [method, req]

listThreads_request == [method |-> "ListThreads", req |-> [empty |-> TRUE]]

getThread_request(name) == [method |-> "GetThread", req |-> [name |-> name]]

setupMailbox_request == [method |-> "SetupMailbox", req |-> [empty |-> TRUE]]

\* getMailboxID calls getThread(api, MailConfig.ThreadName, ctx)
getMailboxID_request == getThread_request(MailConfig.ThreadName)

\* "from" is not sent
sendMessage_request(a) ==
  [method |-> "SendMessage",
   req |-> [to |-> a.to, tobody |-> a.toBody, tosignature |-> a.toSignature,
            frombody |-> a.fromBody, fromsignature |-> a.fromSignature]]

\* a request field is set when opts is given and the field is truthy
listInboxMessages_request(opts) ==
  [method |-> "ListInboxMessages",
   req |-> [seek |-> IF opts # None /\ TruthyString(opts[1].seek)
                     THEN opts[1].seek ELSE None,
            limit |-> IF opts # None /\ TruthyNumber(opts[1].limit)
                      THEN opts[1].limit ELSE None,
            ascending |-> IF opts # None /\ TruthyBoolean(opts[1].ascending)
                          THEN opts[1].ascending ELSE None,
            status |-> IF opts # None /\ TruthyNumber(opts[1].status)
                       THEN opts[1].status ELSE None]]

listSentboxMessages_request(opts) ==
  [method |-> "ListSentboxMessages",
   req |-> [seek |-> IF opts # None /\ TruthyString(opts[1].seek)
                     THEN opts[1].seek ELSE None,
            limit |-> IF opts # None /\ TruthyNumber(opts[1].limit)
                      THEN opts[1].limit ELSE None,
            ascending |-> IF opts # None /\ TruthyBoolean(opts[1].ascending)
                          THEN opts[1].ascending ELSE None]]

readInboxMessage_request(id) == [method |-> "ReadInboxMessage", req |-> [id |-> id]]

deleteInboxMessage_request(id) == [method |-> "DeleteInboxMessage", req |-> [id |-> id]]

deleteSentboxMessage_request(id) == [method |-> "DeleteSentboxMessage", req |-> [id |-> id]]

\* ---- what each operation makes of the reply

convertMessageObj(input) ==
  [body |-> input.Body, signature |-> input.Signature, from |-> input.From,
   id |-> input.Id, to |-> input.To, createdAt |-> input.Createdat,
   readAt |-> input.Readat]

GetThreadReplyObj(thread) ==
  [isDB |-> thread.isdb, name |-> thread.name,
   id |-> ThreadIDToString(ThreadIDFromBytes(thread.id))]

\* the map over the list throws at the first identifier that does not decode
listThreads_reply(res) ==
  IF \E i \in 1..Len(res.list) : FromBytesThrows(res.list[i].id)
  THEN Rejected(DecodeError)
  ELSE Resolved([i \in 1..Len(res.list) |-> GetThreadReplyObj(res.list[i])])

getThread_reply(res) ==
  IF FromBytesThrows(res.id) THEN Rejected(DecodeError)
  ELSE Resolved(GetThreadReplyObj(res))

setupMailbox_reply(res) ==
  IF FromBytesThrows(res.mailboxid) THEN Rejected(DecodeError)
  ELSE Resolved(ThreadIDToString(ThreadIDFromBytes(res.mailboxid)))

\* getMailboxID awaits getThread and returns thread.id
getMailboxID_reply(res) ==
  LET thread == getThread_reply(res)
  IN IF thread.kind = "rejected" THEN thread ELSE Resolved(thread.value[1].id)

sendMessage_reply(a, res) ==
  Resolved([id |-> res.id, createdAt |-> res.createdat, body |-> a.fromBody,
            signature |-> a.fromSignature, to |-> a.to, from |-> a.from])

listMessages_reply(res) ==
  Resolved([i \in 1..Len(res.messages) |-> convertMessageObj(res.messages[i])])

readInboxMessage_reply(res) == Resolved([readAt |-> res.readat])

deleteMessage_reply(res) == Resolved(Undefined)

\* the operation resumes with the reply of its api.unary call
AwaitResolved(i, res) ==
  CASE i.op = "listThreads" -> listThreads_reply(res)
    [] i.op = "getThread" -> getThread_reply(res)
    [] i.op = "setupMailbox" -> setupMailbox_reply(res)
    [] i.op = "getMailboxID" -> getMailboxID_reply(res)
    [] i.op = "sendMessage" -> sendMessage_reply(i.args, res)
    [] i.op \in { "listInboxMessages", "listSentboxMessages" } ->
         listMessages_reply(res)
    [] i.op = "readInboxMessage" -> readInboxMessage_reply(res)
    [] OTHER -> deleteMessage_reply(res)

\* an operation that calls api.unary again when it rejects
AwaitRejected_Retries(calls, e) ==
  [calls |-> Append(calls, calls[Len(calls)]), pc |-> "awaiting", outcome |-> Pending]

\* api.unary rejected: no operation catches, so the operation rejects with
\* the transport's error and issues no further call
AwaitRejected(calls, e) == [calls |-> calls, pc |-> "settled", outcome |-> Rejected(e)]

\* ---- actions: one per operation, and the two ways api.unary completes

Invoke(op, args, r) ==
  /\ pc \in { "idle", "settled" }
  /\ pc' = "awaiting"
  /\ inv' = [op |-> op, args |-> args]
  /\ unaryCalls' = << r >>
  /\ answer' = [ok |-> FALSE, err |-> Undefined, reply |-> None]
  /\ outcome' = Pending
  /\ settles' = 0

ListThreads == Invoke("listThreads", None, listThreads_request)

GetThread == \E name \in { "hubmail", "other" } :
  Invoke("getThread", name, getThread_request(name))

SetupMailbox == Invoke("setupMailbox", None, setupMailbox_request)

GetMailboxID == Invoke("getMailboxID", None, getMailboxID_request)

SendMessage ==
  LET a == [from |-> "A", to |-> "B", toBody |-> << 1 >>, toSignature |-> << 2 >>,
            fromBody |-> << 3 >>, fromSignature |-> << 4 >>]
  IN Invoke("sendMessage", a, sendMessage_request(a))

ListInboxMessages == \E opts \in Optional(InboxListOptions) :
  Invoke("listInboxMessages", opts, listInboxMessages_request(opts))

ListSentboxMessages == \E opts \in Optional(SentboxListOptions) :
  Invoke("listSentboxMessages", opts, listSentboxMessages_request(opts))

ReadInboxMessage == \E id \in MessageIds :
  Invoke("readInboxMessage", id, readInboxMessage_request(id))

DeleteInboxMessage == \E id \in MessageIds :
  Invoke("deleteInboxMessage", id, deleteInboxMessage_request(id))

DeleteSentboxMessage == \E id \in MessageIds :
  Invoke("deleteSentboxMessage", id, deleteSentboxMessage_request(id))

UnaryRejects ==
  \E e \in TransportErrors :
    LET r == AwaitRejected(unaryCalls, e)
    IN /\ pc = "awaiting"
       /\ answer' = [ok |-> FALSE, err |-> e, reply |-> None]
       /\ pc' = r.pc
       /\ unaryCalls' = r.calls
       /\ outcome' = r.outcome
       /\ settles' = IF r.pc = "settled" THEN settles + 1 ELSE settles
       /\ UNCHANGED inv

UnaryResolves ==
  /\ pc = "awaiting"
  /\ \E res \in Replies(unaryCalls[Len(unaryCalls)].method) :
       /\ answer' = [ok |-> TRUE, err |-> Undefined, reply |-> Some(res)]
       /\ pc' = "settled"
       /\ outcome' = AwaitResolved(inv, res)
       /\ settles' = settles + 1
       /\ UNCHANGED << inv, unaryCalls >>

InitUnaryVars ==
  /\ pc = "idle"
  /\ inv = [op |-> "none", args |-> None]
  /\ unaryCalls = << >>
  /\ answer = [ok |-> FALSE, err |-> Undefined, reply |-> None]
  /\ outcome = Pending
  /\ settles = 0

(***************************************************************************)
(* watchMailbox.  The feed is Client.listen: it is handed retype, calls it *)
(* once per notification, in order, and returns the request that closes    *)
(* it.  retype runs to its end inside the feed's call.                     *)
(***************************************************************************)
\* notifications produced for one subscription
MaxNotifications == 2

MailboxEventType == [CREATE |-> 0, SAVE |-> 1, DELETE |-> 2]

\* Action, the tag of an update, and the tags an update may carry: the
\* three of Action and one that is none of them
Action == [CREATE |-> 0, SAVE |-> 1, DELETE |-> 2]
ActionTags == { Action.CREATE, Action.SAVE, Action.DELETE, 3 }

\* Buffer.from(s, 'base64') as bytes
Base64Decode(s) ==
  CASE s = "aGk=" -> << 104, 105 >>
    [] s = "c2ln" -> << 115, 105, 103 >>
    [] OTHER -> << >>

IntermediateMessages ==
  { [from |-> "A", to |-> "B", body |-> "aGk=", signature |-> "c2ln",
     created_at |-> 1000, read_at |-> 0] }

Updates ==
  [action : ActionTags, instanceID : MessageIds,
   instance : Optional(IntermediateMessages)]

\* what the feed hands to its callback: an update, or a transport error
Notifications ==
  { [reply |-> Some(u), err |-> Undefined] : u \in Updates }
    \cup { [reply |-> None, err |-> e] : e \in TransportErrors }

ListenRequest == "grpc.Request#listen"

VARIABLES
  sub,        \* the subscription watchMailbox opened: [open, threadID, collectionName]
  handle,     \* the request watchMailbox returned
  feed,       \* the feed: [closed, ended, pending, produced]
  received,   \* the notifications handed to retype, in order
  callbacks,  \* the invocations of the caller's callback, in order: [reply, err]
  closed      \* the caller closed the handle

watchVars == << sub, handle, feed, received, callbacks, closed >>

\* the MailboxEvent retype builds from an update: the tag as the type, the
\* instanceID, and a message when the update has an instance
MailboxEventOf(update) ==
  LET type == update.action
      instance == update.instance
  IN [type |-> type,
      messageID |-> update.instanceID,
      message |->
        IF instance # None
        THEN Some([id |-> update.instanceID,
                   from |-> instance[1].from,
                   to |-> instance[1].to,
                   body |-> Base64Decode(instance[1].body),
                   signature |-> Base64Decode(instance[1].signature),
                   createdAt |-> instance[1].created_at,
                   readAt |-> instance[1].read_at])
        ELSE None]

\* retype, forwarding a failure without its error
retype_DropsError(reply, err) ==
  IF reply = None
  THEN << [reply |-> reply, err |-> Undefined] >>
  ELSE << [reply |-> Some(MailboxEventOf(reply[1])), err |-> Undefined] >>

\* retype(reply, err): the invocations of callback it makes
retype(reply, err) ==
  IF reply = None
  THEN << [reply |-> reply, err |-> err] >>
  ELSE << [reply |-> Some(MailboxEventOf(reply[1])), err |-> Undefined] >>

\* watchMailbox, returning a request that is not the one listen returned
watchMailbox_OtherRequest(id, box) ==
  [threadID |-> id,
   collectionName |-> IF box = "inbox" THEN MailConfig.InboxCollectionName
                      ELSE MailConfig.SentboxCollectionName,
   handle |-> "grpc.Request#other"]

\* watchMailbox(api, id, box, callback, ctx): the listen it opens and the
\* request it returns
watchMailbox(id, box) ==
  [threadID |-> id,
   collectionName |-> IF box = "inbox" THEN MailConfig.InboxCollectionName
                      ELSE MailConfig.SentboxCollectionName,
   handle |-> ListenRequest]

WatchMailbox ==
  \E id \in { "bafk1", "bafk2" }, box \in { "inbox", "sentbox" } :
    LET w == watchMailbox(id, box)
    IN /\ ~sub.open
       /\ sub' = [open |-> TRUE, threadID |-> w.threadID,
                  collectionName |-> w.collectionName]
       /\ handle' = w.handle
       /\ UNCHANGED << feed, received, callbacks, closed >>

\* the feed may hand a notification to its callback: the listen is open,
\* its request was not closed and it has not ended with an error
FeedMayDeliver == sub.open /\ ~feed.closed /\ ~feed.ended

\* a change of the collection, or a transport failure, reaches the feed
FeedReceives ==
  \E n \in Notifications :
    /\ FeedMayDeliver
    /\ feed.produced < MaxNotifications
    /\ \A i \in 1..Len(feed.pending) : feed.pending[i].reply # None
    /\ feed' = [feed EXCEPT !.pending = Append(@, n), !.produced = @ + 1]
    /\ UNCHANGED << sub, handle, received, callbacks, closed >>

\* the feed hands its oldest notification to retype, which calls callback
FeedDelivers ==
  /\ FeedMayDeliver
  /\ feed.pending # << >>
  /\ LET n == Head(feed.pending)
     IN /\ received' = Append(received, n)
        /\ callbacks' = callbacks \o retype(n.reply, n.err)
        /\ feed' = [feed EXCEPT !.pending = Tail(@), !.ended = (n.reply = None)]
  /\ UNCHANGED << sub, handle, closed >>

\* the caller closes the request watchMailbox returned
Close ==
  /\ sub.open
  /\ ~closed
  /\ closed' = TRUE
  /\ feed' = [feed EXCEPT !.closed = @ \/ (handle = ListenRequest)]
  /\ UNCHANGED << sub, handle, received, callbacks >>

InitWatchVars ==
  /\ sub = [open |-> FALSE, threadID |-> Undefined, collectionName |-> Undefined]
  /\ handle = Undefined
  /\ feed = [closed |-> FALSE, ended |-> FALSE, pending |-> << >>, produced |-> 0]
  /\ received = << >>
  /\ callbacks = << >>
  /\ closed = FALSE

vars == << ctxVars, unaryVars, watchVars >>

(***************************************************************************)
(* SpecChain: key-setting mutators called one after the other on one       *)
(* context, with the calls recorded in log.                                *)
(***************************************************************************)
InitChain == InitCtxVars({ "c1" }) /\ InitUnaryVars /\ InitWatchVars

Chain(A) ==
  /\ nsteps < MaxChainCalls
  /\ A
  /\ log' = Append(log, call')
  /\ UNCHANGED << unaryVars, watchVars >>

NextChain ==
  \/ Chain(WithSession)
  \/ Chain(WithThread)
  \/ Chain(WithThreadName)
  \/ Chain(WithOrg)
  \/ Chain(WithToken)
  \/ Chain(WithAPIKey)
  \/ Chain(WithAPISig)

SpecChain == InitChain /\ [][NextChain]_vars

(***************************************************************************)
(* SpecShare: several contexts, every method, key sets shared through      *)
(* withContext and fromJSON.                                               *)
(***************************************************************************)
InitShare == InitCtxVars({ "c1", "c2" }) /\ InitUnaryVars /\ InitWatchVars

Share(A) ==
  /\ nsteps < MaxShareCalls
  /\ A
  /\ UNCHANGED << log, unaryVars, watchVars >>

NextShare ==
  \/ Share(NewContext)
  \/ Share(Set)
  \/ Share(WithSession)
  \/ Share(WithThread)
  \/ Share(WithThreadName)
  \/ Share(WithOrg)
  \/ Share(WithToken)
  \/ Share(WithAPIKey)
  \/ Share(WithAPISig)
  \/ Share(WithContext)
  \/ Share(FromJSON)

SpecShare == InitShare /\ [][NextShare]_vars

(***************************************************************************)
(* SpecUnary: the unary operations, one invocation after the other.        *)
(***************************************************************************)
InitUnary == InitCtxVars({ "c1" }) /\ InitUnaryVars /\ InitWatchVars

Unary(A) == A /\ UNCHANGED << ctxVars, watchVars >>

NextUnary ==
  \/ Unary(ListThreads)
  \/ Unary(GetThread)
  \/ Unary(SetupMailbox)
  \/ Unary(GetMailboxID)
  \/ Unary(SendMessage)
  \/ Unary(ListInboxMessages)
  \/ Unary(ListSentboxMessages)
  \/ Unary(ReadInboxMessage)
  \/ Unary(DeleteInboxMessage)
  \/ Unary(DeleteSentboxMessage)
  \/ Unary(UnaryRejects)
  \/ Unary(UnaryResolves)

SpecUnary == InitUnary /\ [][NextUnary]_vars

(***************************************************************************)
(* SpecWatch: one subscription opened by watchMailbox.                     *)
(***************************************************************************)
InitWatch == InitCtxVars({ "c1" }) /\ InitUnaryVars /\ InitWatchVars

Watch(A) == A /\ UNCHANGED << ctxVars, unaryVars >>

NextWatch ==
  \/ Watch(WatchMailbox)
  \/ Watch(FeedReceives)
  \/ Watch(FeedDelivers)
  \/ Watch(Close)

SpecWatch == InitWatch /\ [][NextWatch]_vars

(***************************************************************************)
(* Claims about the context.                                               *)
(***************************************************************************)
FiveMutators ==
  { "withSession", "withThread", "withThreadName", "withOrg", "withAPIKey" }

\* the keys a key-setting mutator is documented to store under
KeysOf(op) ==
  CASE op = "withSession" -> { K_Session }
    [] op = "withThread" -> { K_Thread }
    [] op = "withThreadName" -> { K_ThreadName }
    [] op = "withOrg" -> { K_Org }
    [] op = "withToken" -> { K_Authorization }
    [] op = "withAPIKey" -> { K_APIKey }
    [] op = "withAPISig" -> { K_APISig, K_APISigMsg }
    [] OTHER -> { }

\* the value call e is documented to store under key k
StoredBy(e, k) ==
  CASE e.op = "withToken" -> "bearer " \o e.arg
    [] e.op = "withThread" -> ThreadIDToString(e.arg)
    [] e.op = "withAPISig" -> IF k = K_APISig THEN SigOf(e.arg) ELSE MsgOf(e.arg)
    [] OTHER -> e.arg

\* C1 (as stated): each of withSession, withThread, withThreadName, withOrg
\* and withAPIKey returns its receiver; given undefined it changes no key of
\* any key set, given a value it stores it under its key.
C1_MutatorReturnsReceiver ==
  [][ call'.op \in FiveMutators =>
        /\ ret' = call'.recv
        /\ call'.arg = Undefined => (objs' = objs /\ ctx' = ctx)
        /\ call'.arg # Undefined =>
             \A k \in KeysOf(call'.op) :
               get(Heap', call'.recv, k) = StoredBy(call', k) ]_vars

\* the value a freshly constructed context holds under key k
InitialValue(k) ==
  CASE k = K_Host -> defaultHost
    [] k = K_Transport -> WebsocketTransport
    [] k = K_Debug -> "false"
    [] OTHER -> Absent

\* the value the last call of l given a defined value for key k stored
RECURSIVE LastStored(_, _)
LastStored(l, k) ==
  IF l = << >> THEN InitialValue(k)
  ELSE LET e == l[Len(l)]
       IN IF e.arg # Undefined /\ k \in KeysOf(e.op)
          THEN StoredBy(e, k)
          ELSE LastStored(SubSeq(l, 1, Len(l) - 1), k)

\* C2: after any sequence of key-setting calls on one context, toJSON()
\* holds under every key the value stored by the last call given a defined
\* value for that key, and the initial value under a key no such call
\* targeted; calls given undefined count for nothing.
C2_LastValueWins ==
  \A k \in ContextKeys : objs[toJSON(Heap, "c1")][k] = LastStored(log, k)

\* C2's case: a value overwritten by a second call, then a call given undefined
C2_Witness ==
  /\ Len(log) = 3
  /\ log[1].op = "withToken" /\ log[1].arg = "a"
  /\ log[2].op = "withToken" /\ log[2].arg = "b"
  /\ log[3].op = "withToken" /\ log[3].arg = Undefined
  /\ get(Heap, "c1", K_Authorization) = "bearer b"

\* C3: Context.fromJSON(ctx.toJSON()).toJSON() is deeply equal to what
\* ctx.toJSON() was before the call, and ctx.toJSON() is left as it was.
C3_RoundTrip ==
  [][ call'.op = "fromJSON" =>
        /\ objs'[toJSON(Heap', ret')] = objs[toJSON(Heap, call'.arg)]
        /\ objs'[toJSON(Heap', call'.arg)] = objs[toJSON(Heap, call'.arg)] ]_vars

\* C3's case: a round trip of a context that holds an extension key and a
\* recognized key
C3_Witness ==
  /\ call.op = "fromJSON"
  /\ ret = call.recv
  /\ \E k \in RecognizedKeys \ { K_Host, K_Transport, K_Debug } :
       get(Heap, ret, k) # Undefined
  /\ get(Heap, ret, K_Extension) = "a"

\* the calls that write a key
Writers ==
  { "set", "withSession", "withThread", "withThreadName", "withOrg",
    "withToken", "withAPIKey", "withAPISig" }

Replaces(c) == c.op = "withContext" /\ c.arg # Undefined

\* a.withContext(b), b defined: a refers to the key set b refers to
SharesAfterWithContext ==
  Replaces(call') =>
    /\ ctx'[call'.recv] = ctx[call'.arg]
    /\ ctx'[call'.arg] = ctx[call'.arg]
    /\ objs' = objs
    /\ \A k \in ContextKeys :
         get(Heap', call'.recv, k) = get(Heap, call'.arg, k)

\* the keys a writing call stores under, and the value it stores
WrittenKeys(c) == IF c.op = "set" THEN { c.arg } ELSE KeysOf(c.op)
WrittenValue(c, k) == IF c.op = "set" THEN c.arg2 ELSE StoredBy(c, k)

\* a write through one context is read through every context sharing its
\* key set, and changes no other key set
WritesVisibleToSharers ==
  (call'.op \in Writers /\ (call'.op = "set" \/ call'.arg # Undefined)) =>
    /\ \A b \in CtxIds :
         (Alive(b) /\ ctx[b] = ctx[call'.recv]) =>
           \A k \in WrittenKeys(call') :
             get(Heap', b, k) = WrittenValue(call', k)
    /\ \A b \in CtxIds :
         (Alive(b) /\ ctx[b] # ctx[call'.recv]) =>
           objs'[ctx'[b]] = objs[ctx[b]]

\* no call but a withContext (with a defined argument) on it changes the
\* key set a context refers to: two contexts that share a key set go on
\* sharing it until such a call is made on one of them
SharingLasts ==
  \A a \in CtxIds :
    (Alive(a) /\ ~(Replaces(call') /\ call'.recv = a)) => ctx'[a] = ctx[a]

\* the contexts other than a that share the key set of a
Sharers(a) == { b \in CtxIds \ { a } : Alive(b) /\ ctx[b] = ctx[a] }

\* C4 (as stated): after a.withContext(b) the two share one key set, writes
\* through either are read through the other, the sharing lasts until a
\* withContext call on one of them, and any such call ends it.
C4_SharingEndsAtNextWithContext ==
  [][ /\ SharesAfterWithContext
      /\ WritesVisibleToSharers
      /\ SharingLasts
      /\ Replaces(call') =>
           \A b \in Sharers(call'.recv) : ctx'[call'.recv] # ctx'[b] ]_vars

\* C4 (amended): after a.withContext(b), a reads and writes the key set of
\* b; a write through either is read through the other; the sharing lasts
\* until a withContext call makes one of them refer to a different key set,
\* and contexts that refer to different key sets do not see each other's
\* writes.
C4_SharingUntilDifferentKeySet ==
  [][ /\ SharesAfterWithContext
      /\ WritesVisibleToSharers
      /\ SharingLasts
      /\ Replaces(call') =>
           \A b \in Sharers(call'.recv) :
             (ctx[call'.arg] # ctx[b]) = (ctx'[call'.recv] # ctx'[b]) ]_vars

\* C4's case: c1 took over the key set of c2, and a later write through c2
\* is read through c1
C4_Witness ==
  /\ ctx["c1"] = "c2"
  /\ ctx["c2"] = "c2"
  /\ call.op = "set" /\ call.recv = "c2"
  /\ call.arg = K_Extension /\ call.arg2 = "a"
  /\ get(Heap, "c1", K_Extension) = "a"

(***************************************************************************)
(* Claims about the mailbox operations.                                    *)
(***************************************************************************)
\* an event handed to the callback keeps the event invariant
EventWellFormed(e) ==
  /\ e.type = MailboxEventType.DELETE => e.message = None
  /\ e.message # None => e.message[1].id = e.messageID

\* C5 (as stated): every event handed to the callback, whatever the update:
\* a DELETE event carries no message, and a message carries the event's
\* messageID as its id.
C5_DeleteCarriesNoMessage ==
  \A i \in 1..Len(callbacks) :
    callbacks[i].reply # None => EventWellFormed(callbacks[i].reply[1])

\* the event type an action tag maps to
TypeOfTag(tag) ==
  CASE tag = Action.CREATE -> MailboxEventType.CREATE
    [] tag = Action.SAVE -> MailboxEventType.SAVE
    [] tag = Action.DELETE -> MailboxEventType.DELETE

\* C6 (as stated): an update with one of the three action tags is handed to
\* the callback as an event of the matching type; an update with any other
\* tag is reported as an error and never handed over as an event.
C6_UnknownTagIsAnError ==
  \A i \in 1..Len(callbacks) :
    received[i].reply # None =>
      LET tag == received[i].reply[1].action
      IN IF tag \in { Action.CREATE, Action.SAVE, Action.DELETE }
         THEN /\ callbacks[i].reply # None
              /\ callbacks[i].reply[1].type = TypeOfTag(tag)
         ELSE /\ callbacks[i].reply = None
              /\ callbacks[i].err # Undefined

\* C7 (as stated): each of seek, limit, ascending (and status, for the
\* inbox) is set on the request, with the value supplied, exactly when it is
\* present in opts.
C7_FieldSetIffPresent ==
  (pc # "idle" /\ inv.op \in { "listInboxMessages", "listSentboxMessages" }) =>
    LET opts == inv.args
        req == unaryCalls[1].req
    IN /\ req.seek = (IF opts # None THEN opts[1].seek ELSE None)
       /\ req.limit = (IF opts # None THEN opts[1].limit ELSE None)
       /\ req.ascending = (IF opts # None THEN opts[1].ascending ELSE None)
       /\ inv.op = "listInboxMessages" =>
            req.status = (IF opts # None THEN opts[1].status ELSE None)

\* C8: retype was handed as many notifications as the callback was invoked
\* times, and the i-th invocation is the one the i-th notification asks for:
\* the event of the update (its tag, its instanceID, a message when it has an
\* instance) and no error, or no event and the notification's error.
C8_OneCallbackPerNotification ==
  /\ Len(callbacks) = Len(received)
  /\ \A i \in 1..Len(received) :
       LET n == received[i]
           c == callbacks[i]
       IN IF n.reply # None
          THEN /\ c.err = Undefined
               /\ c.reply # None
               /\ c.reply[1].messageID = n.reply[1].instanceID
               /\ c.reply[1].type = n.reply[1].action
               /\ (c.reply[1].message = None) = (n.reply[1].instance = None)
          ELSE /\ c.reply = None
               /\ c.err = n.err

\* C8's case: an update, then a transport error, handed over in that order
C8_Witness ==
  /\ Len(callbacks) = 2
  /\ received[1].reply # None
  /\ callbacks[1].reply # None
  /\ callbacks[1].reply[1].messageID = "m2"
  /\ callbacks[2].reply = None
  /\ callbacks[2].err = "TransportError#2"

ErrorDelivered == \E i \in 1..Len(callbacks) : callbacks[i].err # Undefined

ReplyIds(op, res) ==
  CASE op = "listThreads" -> { res.list[i].id : i \in 1..Len(res.list) }
    [] op \in { "getThread", "getMailboxID" } -> { res.id }
    [] op = "setupMailbox" -> { res.mailboxid }
    [] OTHER -> { }

\* the api.unary method each operation calls
MethodOf(op) ==
  CASE op = "listThreads" -> "ListThreads"
    [] op \in { "getThread", "getMailboxID" } -> "GetThread"
    [] op = "setupMailbox" -> "SetupMailbox"
    [] op = "sendMessage" -> "SendMessage"
    [] op = "listInboxMessages" -> "ListInboxMessages"
    [] op = "listSentboxMessages" -> "ListSentboxMessages"
    [] op = "readInboxMessage" -> "ReadInboxMessage"
    [] op = "deleteInboxMessage" -> "DeleteInboxMessage"
    [] op = "deleteSentboxMessage" -> "DeleteSentboxMessage"

\* one call of the operation's method, no settlement while it is awaited,
\* one settlement after; a transport failure rejects with that error
OneCallOneSettlement ==
  /\ pc # "idle" =>
       /\ Len(unaryCalls) = 1
       /\ unaryCalls[1].method = MethodOf(inv.op)
  /\ pc = "awaiting" => (settles = 0 /\ outcome.kind = "pending")
  /\ pc = "settled" =>
       /\ settles = 1
       /\ ~answer.ok =>
            /\ outcome.kind = "rejected"
            /\ outcome.err = answer.err
            /\ outcome.value = None

\* C10 (as stated): ... and when api.unary succeeds the operation resolves.
C10_SuccessResolves ==
  /\ OneCallOneSettlement
  /\ (pc = "settled" /\ answer.ok) => outcome.kind = "resolved"

\* C10 (amended): ... and when api.unary succeeds the operation resolves,
\* unless the reply carries a thread identifier that does not decode: then
\* it rejects with the decoding error.
C10_SuccessResolvesOrDecodeError ==
  /\ OneCallOneSettlement
  /\ (pc = "settled" /\ answer.ok) =>
       IF \E w \in ReplyIds(inv.op, answer.reply[1]) : FromBytesThrows(w)
       THEN outcome.kind = "rejected" /\ outcome.err = DecodeError
       ELSE outcome.kind = "resolved"

\* C10's case: the transport failed a call of getMailboxID, which rejected
\* with the transport's error
C10_Witness ==
  /\ pc = "settled"
  /\ inv.op = "getMailboxID"
  /\ ~answer.ok
  /\ answer.err = "TransportError#2"
  /\ outcome.kind = "rejected"
  /\ outcome.err = "TransportError#2"

====
